---- MODULE Spec2Model ----
(***************************************************************************)
(* incremental_selection (opencog/learning/feature-selection/              *)
(* feature_selection.h) as a state machine.  One call of the function is   *)
(* one behaviour: Init is the state on entry to the for loop (locals       *)
(* constructed, arguments fixed), each action is one step of the loop body *)
(* and Return is the return statement.                                     *)
(***************************************************************************)
EXTENDS Integers, Naturals, Sequences, FiniteSets, TLC

\* ---- bounds of the inputs ------------------------------------------------
MaxSize == 2
MaxThreshold == 1

\* The feature type with its operator<: a feature is smaller than the ones
\* to its right.
FeatureOrder == <<"A", "B", "C">>
FeatureUniverse == {FeatureOrder[k] : k \in 1..Len(FeatureOrder)}
ScoreValues == {0, 1, 2}
Thresholds == 0..MaxThreshold
\* The worked example, scores in hundredths: the scores it gives, and the
\* values tried for the feature sets it gives no score for.
ExampleFeatures == {"A", "B", "C"}
ExampleGiven == {{"A"}, {"B"}, {"C"}, {"A", "C"}}
ExampleScores == {40, 50, 65}

VARIABLES
    features,      \* argument: the initial set of features
    score,         \* argument: the scorer, a deterministic function of a feature set
    threshold,     \* argument
    max_size,      \* argument
    remove_red,    \* argument
    fs_first,      \* the build's evaluation order of the two operands of line 86
    scorer_cache,  \* lru_cache<Scorer>: capacity n and the entries, most recent first
    calls,         \* number of invocations of the underlying scorer, per feature set
    i,             \* loop variable
    rel,           \* local rel
    res,           \* local res
    tf,            \* local tf of the current iteration
    fss,           \* local fss of the current iteration
    red,           \* local red of the last redundancy pass
    rel_cumulative,\* history: every feature some relevance pass inserted in rel
    pc

vars == <<features, score, threshold, max_size, remove_red, fs_first,
          scorer_cache, calls, i, rel, res, tf, fss, red, rel_cumulative, pc>>

\* ---- std::set iteration order ---------------------------------------------
Rank(f) == CHOOSE k \in 1..Len(FeatureOrder) : FeatureOrder[k] = f

MinFeature(s) == CHOOSE f \in s : \A g \in s : Rank(f) <= Rank(g)

RECURSIVE FeatureSeq(_)
FeatureSeq(s) ==
    IF s = {} THEN <<>>
    ELSE <<MinFeature(s)>> \o FeatureSeq(s \ {MinFeature(s)})

RECURSIVE FeatureSetLess(_, _)
FeatureSetLess(a, b) ==
    IF b = {} THEN FALSE
    ELSE IF a = {} THEN TRUE
    ELSE IF Rank(MinFeature(a)) < Rank(MinFeature(b)) THEN TRUE
    ELSE IF Rank(MinFeature(b)) < Rank(MinFeature(a)) THEN FALSE
    ELSE FeatureSetLess(a \ {MinFeature(a)}, b \ {MinFeature(b)})

MinFeatureSet(ss) == CHOOSE a \in ss : \A b \in ss \ {a} : FeatureSetLess(a, b)

RECURSIVE FeatureSetSeq(_)
FeatureSetSeq(ss) ==
    IF ss = {} THEN <<>>
    ELSE <<MinFeatureSet(ss)>> \o FeatureSetSeq(ss \ {MinFeatureSet(ss)})

\* ---- collaborators (opencog/util) -----------------------------------------
powerset(s, n, exact) ==
    {x \in SUBSET s : IF exact THEN Cardinality(x) = n ELSE Cardinality(x) <= n}

has_empty_intersection(a, b) == a \cap b = {}

NoCalls == [x \in {} |-> 0]

CountCall(k, x) ==
    [y \in DOMAIN k \cup {x} |->
        IF y = x THEN (IF x \in DOMAIN k THEN k[x] + 1 ELSE 1) ELSE k[y]]

CacheIndex(c, x) ==
    IF \E j \in 1..Len(c.lru) : c.lru[j].key = x
    THEN CHOOSE j \in 1..Len(c.lru) : c.lru[j].key = x
    ELSE 0

\* lru_cache::operator(): a hit moves the entry to the front; a miss calls the
\* scorer, inserts at the front and drops the least recently used entry when
\* the capacity is exceeded.
CacheCall(c, k, x) ==
    LET j == CacheIndex(c, x) IN
    IF j > 0
    THEN [cache |-> [c EXCEPT !.lru = <<c.lru[j]>> \o SubSeq(c.lru, 1, j - 1)
                                        \o SubSeq(c.lru, j + 1, Len(c.lru))],
          calls |-> k,
          val   |-> c.lru[j].val]
    ELSE LET ins == <<[key |-> x, val |-> score[x]]>> \o c.lru IN
         [cache |-> [c EXCEPT !.lru = IF Len(ins) > c.n
                                      THEN SubSeq(ins, 1, Len(ins) - 1)
                                      ELSE ins],
          calls |-> CountCall(k, x),
          val   |-> score[x]]

\* ---- incremental_selection -------------------------------------------------
RECURSIVE Pow(_, _)
Pow(b, e) == IF e = 0 THEN 1 ELSE b * Pow(b, e - 1)

Capacity(m) == Pow(Cardinality(features), m)

TestFeaturesAll(r) == features

TestFeatures(r) == features \ r

RelevanceCandidatesUpTo(t, sz) == powerset(t, sz, FALSE)

RelevanceCandidates(t, sz) == powerset(t, sz, TRUE)

RelevantOrEqual(s) == s >= threshold

Relevant(s) == s > threshold

RECURSIVE RelevanceLoop(_, _, _)
RelevanceLoop(seq, k, st) ==
    IF k > Len(seq) THEN st
    ELSE LET q == CacheCall(st.cache, st.calls, seq[k]) IN
         RelevanceLoop(seq, k + 1,
                       [cache |-> q.cache,
                        calls |-> q.calls,
                        rel   |-> IF Relevant(q.val) THEN st.rel \cup seq[k]
                                                      ELSE st.rel])

RelevancePass(c, k, r, cands) ==
    RelevanceLoop(FeatureSetSeq(cands), 1, [cache |-> c, calls |-> k, rel |-> r])

RedundancyCandidatesTwoMore(r, sz) == powerset(r, sz + 2, TRUE)

RedundancyCandidates(r, sz) == powerset(r, sz + 1, TRUE)

RedundantOrEqual(score_diff) == score_diff <= threshold

Redundant(score_diff) == score_diff < threshold

ScoreDiff(c, k, fs, f) ==
    LET fs_without_f == fs \ {f}
        q1 == CacheCall(c, k, IF fs_first THEN fs ELSE fs_without_f)
        q2 == CacheCall(q1.cache, q1.calls, IF fs_first THEN fs_without_f ELSE fs)
    IN [cache |-> q2.cache,
        calls |-> q2.calls,
        val   |-> IF fs_first THEN q1.val - q2.val ELSE q2.val - q1.val]

RECURSIVE FeatureLoop(_, _, _, _)
FeatureLoop(fs, seq, k, st) ==
    IF k > Len(seq) THEN st
    ELSE LET d == ScoreDiff(st.cache, st.calls, fs, seq[k]) IN
         IF Redundant(d.val)
         THEN [cache |-> d.cache, calls |-> d.calls, red |-> st.red \cup {seq[k]}]
         ELSE FeatureLoop(fs, seq, k + 1,
                          [cache |-> d.cache, calls |-> d.calls, red |-> st.red])

RECURSIVE RedundancyLoop(_, _, _)
RedundancyLoop(seq, k, st) ==
    IF k > Len(seq) THEN st
    ELSE RedundancyLoop(seq, k + 1,
                        IF has_empty_intersection(seq[k], st.red)
                        THEN FeatureLoop(seq[k], FeatureSeq(seq[k]), 1, st)
                        ELSE st)

RedundancyPass(c, k, cands) ==
    RedundancyLoop(FeatureSetSeq(cands), 1, [cache |-> c, calls |-> k, red |-> {}])

AddNonRedundantOfFeatures(rs, r, rd) == rs \cup (features \ rd)

AddNonRedundant(rs, r, rd) == rs \cup (r \ rd)

AddRelevantDifference(rs, r) == r \ rs

AddRelevant(rs, r) == rs \cup r

\* One pass of the loop body, and the whole call, as functions of max_size
\* and remove_red (the other arguments are those of the current call).
Iteration(st, k, rr) ==
    LET a == RelevancePass(st.cache, st.calls, st.rel,
                           RelevanceCandidates(TestFeatures(st.rel), k))
    IN IF rr
       THEN LET b == RedundancyPass(a.cache, a.calls, RedundancyCandidates(a.rel, k))
            IN [cache |-> b.cache, calls |-> b.calls, rel |-> a.rel,
                res |-> AddNonRedundant(st.res, a.rel, b.red)]
       ELSE [cache |-> a.cache, calls |-> a.calls, rel |-> a.rel,
             res |-> AddRelevant(st.res, a.rel)]

RECURSIVE ForLoop(_, _, _, _)
ForLoop(st, k, m, rr) ==
    IF k <= m THEN ForLoop(Iteration(st, k, rr), k + 1, m, rr) ELSE st

incremental_selection(m, rr) ==
    ForLoop([cache |-> [n |-> Capacity(m), lru |-> <<>>], calls |-> NoCalls,
             rel |-> {}, res |-> {}], 1, m, rr).res

\* ---- the call as a state machine -------------------------------------------
Locals ==
    /\ fs_first \in BOOLEAN
    /\ scorer_cache = [n |-> Capacity(max_size), lru |-> <<>>]
    /\ calls = NoCalls
    /\ i = 1
    /\ rel = {}
    /\ res = {}
    /\ tf = {}
    /\ fss = {}
    /\ red = {}
    /\ rel_cumulative = {}
    /\ pc = "for"

Init ==
    /\ features \in SUBSET FeatureUniverse
    /\ score \in [SUBSET features -> ScoreValues]
    /\ threshold \in Thresholds
    /\ max_size \in 0..MaxSize
    /\ remove_red \in BOOLEAN
    /\ Locals

\* The call of the worked example: features {A, B, C}, threshold 0.5 and the
\* four scores it states; any max_size and remove_red.
ExampleScorer(u) ==
    [x \in SUBSET ExampleFeatures |->
        IF x = {"A"} THEN 60
        ELSE IF x = {"B"} THEN 40
        ELSE IF x = {"C"} THEN 50
        ELSE IF x = {"A", "C"} THEN 65
        ELSE u[x]]

InitExample ==
    /\ features = ExampleFeatures
    /\ score \in {ExampleScorer(u) :
                    u \in [(SUBSET ExampleFeatures) \ ExampleGiven -> ExampleScores]}
    /\ threshold = 50
    /\ max_size \in 0..MaxSize
    /\ remove_red \in BOOLEAN
    /\ Locals

Args == <<features, score, threshold, max_size, remove_red, fs_first>>

\* for(i = 1; i <= max_size; ...) entered: tf and fss of the iteration
ForBody ==
    /\ pc = "for"
    /\ i <= max_size
    /\ tf' = TestFeatures(rel)
    /\ fss' = RelevanceCandidates(tf', i)
    /\ pc' = "relevance"
    /\ UNCHANGED <<Args, scorer_cache, calls, i, rel, res, red, rel_cumulative>>

\* rel.empty() (no effect) and the foreach over fss
Relevance ==
    /\ pc = "relevance"
    /\ LET st == RelevancePass(scorer_cache, calls, rel, fss) IN
         /\ scorer_cache' = st.cache
         /\ calls' = st.calls
         /\ rel' = st.rel
    /\ rel_cumulative' =
           rel_cumulative \cup UNION {fs \in fss : Relevant(score[fs])}
    /\ pc' = IF remove_red THEN "redundancy" ELSE "insert"
    /\ UNCHANGED <<Args, i, res, tf, fss, red>>

\* the remove_red branch, and i++
RemoveRedundant ==
    /\ pc = "redundancy"
    /\ LET st == RedundancyPass(scorer_cache, calls, RedundancyCandidates(rel, i)) IN
         /\ scorer_cache' = st.cache
         /\ calls' = st.calls
         /\ red' = st.red
         /\ res' = AddNonRedundant(res, rel, st.red)
    /\ i' = i + 1
    /\ pc' = "for"
    /\ UNCHANGED <<Args, rel, tf, fss, rel_cumulative>>

\* the else branch, and i++
InsertRelevant ==
    /\ pc = "insert"
    /\ res' = AddRelevant(res, rel)
    /\ i' = i + 1
    /\ pc' = "for"
    /\ UNCHANGED <<Args, scorer_cache, calls, rel, tf, fss, red, rel_cumulative>>

Return ==
    /\ pc = "for"
    /\ ~(i <= max_size)
    /\ pc' = "done"
    /\ UNCHANGED <<Args, scorer_cache, calls, i, rel, res, tf, fss, red, rel_cumulative>>

Next == ForBody \/ Relevance \/ RemoveRedundant \/ InsertRelevant \/ Return

Spec == Init /\ [][Next]_vars

SpecExample == InitExample /\ [][Next]_vars

\* The stepwise run and the composed function agree on the returned set.
ReturnsSelection == pc = "done" => res = incremental_selection(max_size, remove_red)

TypeOK ==
    /\ features \subseteq FeatureUniverse
    /\ DOMAIN score = SUBSET features
    /\ max_size \in 0..MaxSize
    /\ remove_red \in BOOLEAN
    /\ fs_first \in BOOLEAN
    /\ Len(scorer_cache.lru) <= scorer_cache.n
    /\ i \in 1..(max_size + 1)
    /\ rel \subseteq features
    /\ res \subseteq features
    /\ red \subseteq rel
    /\ tf \subseteq features
    /\ fss \subseteq SUBSET tf
    /\ pc \in {"for", "relevance", "redundancy", "insert", "done"}

\* ---- claims ------------------------------------------------------------------

\* C1: with max_size = 1 and remove_red = false the call returns exactly the
\* features whose singleton score is strictly greater than threshold (a score
\* equal to threshold is not enough).
C1_SingletonsAboveThreshold ==
    (pc = "done" /\ max_size = 1 /\ ~remove_red)
        => res = {f \in features : score[{f}] > threshold}

C1_Witness ==
    /\ pc = "done" /\ max_size = 1 /\ ~remove_red
    /\ \E f \in features : score[{f}] = threshold
    /\ \E f \in features : score[{f}] > threshold
    /\ \E f \in features : score[{f}] < threshold

\* C2: within one call the underlying scorer is invoked at most once for each
\* distinct feature set.
C2_ScorerAtMostOnce == \A fs \in DOMAIN calls : calls[fs] <= 1

\* C3: the result with remove_red = true is a subset of the result of the same
\* call with remove_red = false.
C3_RemoveRedSubset ==
    (pc = "done" /\ remove_red) => res \subseteq incremental_selection(max_size, FALSE)

C3_Witness ==
    /\ pc = "done" /\ remove_red /\ max_size > 0
    /\ res # {}
    /\ res # incremental_selection(max_size, FALSE)

\* C4: with remove_red = false, the result for a smaller max_size is a subset
\* of the result for a larger one.
C4_MonotoneInMaxSize ==
    (pc = "done" /\ ~remove_red)
        => \A m1 \in 0..max_size : incremental_selection(m1, FALSE) \subseteq res

C4_Witness ==
    /\ pc = "done" /\ ~remove_red /\ max_size > 1
    /\ incremental_selection(1, FALSE) # {}
    /\ incremental_selection(1, FALSE) # res

ExampleCase ==
    /\ features = ExampleFeatures
    /\ score[{"A"}] = 60 /\ score[{"B"}] = 40 /\ score[{"C"}] = 50
    /\ score[{"A", "C"}] = 65
    /\ threshold = 50
    /\ max_size = 2
    /\ ~remove_red

\* C5 as stated: in the worked example with max_size = 2, iteration 2 scores
\* the candidate {A, C} and the call returns {A, C}.
C5_ExampleReturnsAC ==
    (ExampleCase /\ pc = "done")
        => ({"A", "C"} \in DOMAIN calls /\ res = {"A", "C"})

\* C5 amended: in the worked example with max_size = 2, the only candidate of
\* iteration 2 is {B, C}; {A, C} is never scored, and the call returns {A}
\* when score({B, C}) <= threshold and {A, B, C} otherwise.
C5_ExampleSkipsAC ==
    /\ (ExampleCase /\ pc = "relevance" /\ i = 2) => fss = {{"B", "C"}}
    /\ ExampleCase => {"A", "C"} \notin DOMAIN calls
    /\ (ExampleCase /\ pc = "done")
          => /\ {"B", "C"} \in DOMAIN calls
             /\ res = IF score[{"B", "C"}] > threshold THEN {"A", "B", "C"} ELSE {"A"}

C5_Witness == ExampleCase /\ pc = "done" /\ res = {"A"}

\* C6: with an empty feature pool the call returns the empty set and never
\* invokes the scorer, whatever threshold, max_size and remove_red are.
C6_EmptyFeatures ==
    features = {} => (DOMAIN calls = {} /\ res = {})

C6_Witness == features = {} /\ pc = "done" /\ max_size > 0 /\ remove_red

\* C7: every feature set passed to the scorer is a subset of features of
\* cardinality at most max_size + 1.
C7_ScoredSetsBounded ==
    \A fs \in DOMAIN calls : fs \subseteq features /\ Cardinality(fs) <= max_size + 1

C7_Witness ==
    /\ pc = "done"
    /\ \E fs \in DOMAIN calls : Cardinality(fs) = max_size + 1

\* C8: after the relevance pass of an iteration, rel holds only features of
\* that iteration's candidates whose score is strictly above threshold.
C8_RelOnlyCurrentIteration ==
    pc \in {"redundancy", "insert"}
        => rel \subseteq UNION {fs \in fss : score[fs] > threshold}

\* The redundant set when every size-(sz+1) subset of r is evaluated: the
\* first feature of each whose removal costs less than threshold.
UnprunedRedundant(r, sz) ==
    {f \in r : \E fs \in powerset(r, sz + 1, TRUE) :
        /\ f \in fs
        /\ score[fs] - score[fs \ {f}] < threshold
        /\ \A g \in fs : Rank(g) < Rank(f)
                           => ~(score[fs] - score[fs \ {g}] < threshold)}

AfterRedundancyPass == pc \in {"for", "done"} /\ remove_red /\ i > 1

\* C9 as stated: the redundancy pass computes the same red with the
\* has_empty_intersection guard as it would with every candidate evaluated.
C9_PruningIrrelevant ==
    AfterRedundancyPass => red = UnprunedRedundant(rel, i - 1)

\* C9 amended: the red computed with the guard is a subset of the red
\* computed with every candidate evaluated (and can be a proper subset).
C9_PrunedIsSubset ==
    AfterRedundancyPass => red \subseteq UnprunedRedundant(rel, i - 1)

C9_Witness ==
    /\ AfterRedundancyPass
    /\ red # {}
    /\ red # UnprunedRedundant(rel, i - 1)

====
